---- MODULE Spec2Model ----
(***************************************************************************)
(* A model of osgtest.library.osgunittest: the exception taxonomy, the     *)
(* outcome tracker (_Outcome), the test case wrapper (OSGTestCase.run),    *)
(* the result collector (OSGTestResult), the suite (OSGTestSuite), the     *)
(* conditional skip helpers and the text report (OSGTextTestResult,        *)
(* OSGTextTestRunner); of osgtest.library.service: starting, stopping and  *)
(* polling a service; and of the tests' helpers start_xrootd, stop_xrootd  *)
(* and xrootd_tpc_record_failure, output_is_acceptable with the fetch-crl  *)
(* tests, and the proxy flags of TestVOMS.                                 *)
(*                                                                         *)
(* Python values are represented as follows.                               *)
(*  - a str is a sequence of one-character strings;                        *)
(*  - an exception instance is a record [type, msg], msg being the         *)
(*    argument it was constructed with (a str, or NoneMsg for None);       *)
(*  - sys.exc_info() is the 3-tuple <<type, msg, Traceback>>;              *)
(*  - a test case is its index in the suite.                               *)
(***************************************************************************)
EXTENDS Integers, Sequences, FiniteSets, TLC

\* ------------------------------------------------------------------ bounds

NumTests == 2
MaxCalls == 3
MaxServices == 2
MaxTimeout == 3
MaxSvcCalls == 4
MaxTpcCalls == 3
MaxOutLen == 2

\* --------------------------------------------------------------- constants

STATUS_RUNNING == 0
STATUS_STOPPED == 3

\* ------------------------------------------------------------------- values

\* The str values used as messages: the empty one, a short one, and one of
\* three characters (the length of an exc_info tuple).
Strs == {<<>>, <<"a">>, <<"a", "b", "c">>}

\* The message argument None (message=None is the helpers' default).
NoneMsg == <<"None">>

Msgs == Strs \cup {NoneMsg}

\* str(e) of an exception constructed with one argument: the argument's str.
Str(msg) == IF msg = NoneMsg THEN <<"N", "o", "n", "e">> ELSE msg

\* The four exception classes of the taxonomy, all subclasses of AssertionError.
SkipExcTypes ==
    {"OkSkipException", "ExcludedException", "BadSkipException", "TimeoutException"}

\* What a part of a test (setUp, the test method, tearDown) can raise.
\* SkipTest is unittest.case.SkipTest, _ShouldStop the private class of the
\* module; AssertionError stands for a test failure (failureException) and
\* Exception for any other error.
MsgExcTypes == SkipExcTypes \cup {"SkipTest"}

PlainExcTypes == {"_ShouldStop", "AssertionError", "Exception", "KeyboardInterrupt"}

NoRaise == [type |-> "NoRaise", msg |-> <<>>]

Raisable ==
    {NoRaise}
    \cup {[type |-> t, msg |-> m] : t \in MsgExcTypes, m \in Strs}
    \cup {[type |-> t, msg |-> <<>>] : t \in PlainExcTypes}

Traceback == "tb"

\* sys.exc_info() inside an except clause that caught e.
ExcInfo(e) == <<e.type, e.msg, Traceback>>

\* The exc_info value None of an outcome.errors entry.
NoExcInfo == <<>>

Tests == 1..NumTests

\* A returned value or a raised exception of a call.
Returned(v) == [raised |-> FALSE, val |-> v]

Raised(t) == [raised |-> TRUE, val |-> <<t>>]

\* ---------------------------------------------------------------- variables

VARIABLES
    result,            \* the shared result object's fields
    isOSGTestResult,   \* isinstance(result, OSGTestResult)
    calls,             \* every result.add* call made so far: <<method, test>>
    suitePc,           \* OSGTestSuite.run: "loop", "returned" or "raised"
    idx,               \* position of OSGTestSuite.run's for loop in self._tests
    started,           \* the tests whose run was entered, with shouldStop at the check
    pc,                \* OSGTestCase.run: "idle", "setUp", "testMethod", "tearDown",
                       \* "doCleanups" or "feed"
    outcome,           \* the _Outcome of the run in progress
    expecting_failure, \* the local of OSGTestCase.run
    parts,             \* the parts the current (or last) run executed, each with
                       \* what it raised: <<part, type, msg>>
    runStatus,         \* the current (or last) run: "none", "running", "returned", "raised"
    helper,            \* the skip helper call of the helper specification
    report,            \* what OSGTextTestRunner.run wrote after the tests
    service,           \* core.state's started-service flag of one service, the
                       \* service itself, and the calls of the service library
    poll,              \* the call of service.check_status
    tpc,               \* core.state's 'xrootd.tpc.had-failures' and the calls of
                       \* the functions xrootd_tpc_record_failure wraps
    crl,               \* the call of output_is_acceptable or of a fetch-crl test
    voms               \* core.state's proxy flags and the tests of TestVOMS run

vars ==
    <<result, isOSGTestResult, calls, suitePc, idx, started, pc, outcome,
      expecting_failure, parts, runStatus, helper, report, service, poll, tpc,
      crl, voms>>

\* The variables of the runner, the service library and the decorator, which
\* the test case run leaves alone.
extVars == <<report, service, poll, tpc, crl, voms>>

\* --------------------------------------------------------- result collector

\* unittest.TestResult.__init__ followed by OSGTestResult.__init__; failfast is
\* set by the runner.
NewResult(ff) ==
    [failures |-> <<>>, errors |-> <<>>, skipped |-> <<>>,
     expectedFailures |-> <<>>, unexpectedSuccesses |-> <<>>,
     okSkips |-> <<>>, badSkips |-> <<>>, excludes |-> <<>>, timeouts |-> <<>>,
     testsRun |-> 0, shouldStop |-> FALSE, failfast |-> ff]

\* TestResult._exc_info_to_string: formats the traceback of an exc_info tuple.
\* It walks err[2] as a traceback object (tb.tb_frame), which a str is not.
ExcInfoToString(err) ==
    IF Len(err) # 3 THEN Raised("ValueError")
    ELSE IF err[3] # Traceback THEN Raised("AttributeError")
    ELSE Returned(<<"Traceback", err[1]>> \o Str(err[2]))

\* OSGTestResult.osg_exc_info_to_string.  "exctype, value, _ = err" unpacks
\* any sequence of exactly three items, a three-character str included.
osg_exc_info_to_string(err) ==
    IF Len(err) # 3 THEN Raised("ValueError")
    ELSE IF err[1] \in SkipExcTypes THEN Returned(Str(err[2]))
    ELSE ExcInfoToString(err)

\* list.append((test, <converted>)): the argument is evaluated first, so a
\* conversion that raises leaves the list as it was.
AppendConverted(list, test, conv) ==
    IF conv.raised THEN list ELSE Append(list, <<test, conv.val>>)

addOkSkip(r, test, err) ==
    [r EXCEPT !.okSkips = AppendConverted(@, test, osg_exc_info_to_string(err))]

addExclude(r, test, err) ==
    [r EXCEPT !.excludes = AppendConverted(@, test, osg_exc_info_to_string(err))]

addBadSkip(r, test, err) ==
    [r EXCEPT !.badSkips = AppendConverted(@, test, osg_exc_info_to_string(err))]

addTimeout(r, test, err) ==
    [r EXCEPT !.timeouts = AppendConverted(@, test, osg_exc_info_to_string(err))]

\* The @failfast decorator of unittest.TestResult: stop() before the method.
FailFast(r) == IF r.failfast THEN [r EXCEPT !.shouldStop = TRUE] ELSE r

addError(r, test, err) ==
    [FailFast(r) EXCEPT !.errors = AppendConverted(@, test, ExcInfoToString(err))]

addFailure(r, test, err) ==
    [FailFast(r) EXCEPT !.failures = AppendConverted(@, test, ExcInfoToString(err))]

addSkip(r, test, reason) == [r EXCEPT !.skipped = Append(@, <<test, reason>>)]

addExpectedFailure(r, test, err) ==
    [r EXCEPT !.expectedFailures = AppendConverted(@, test, ExcInfoToString(err))]

addUnexpectedSuccess(r, test) ==
    [FailFast(r) EXCEPT !.unexpectedSuccesses = Append(@, <<test, <<>>>>)]

\* TestResult.addSuccess keeps nothing; the call is visible in calls only.
addSuccess(r, test) == r

startTest(r, test) == [r EXCEPT !.testsRun = @ + 1]

\* wasSuccessful as unittest.TestResult has it, the bad skips and timeouts
\* not looked at.
wasSuccessfulBase(r) == Len(r.failures) = Len(r.errors) /\ Len(r.errors) = 0

\* len(failures) == len(errors) == len(badSkips) == len(timeouts) == 0, a
\* chained comparison.
wasSuccessful(r) ==
    /\ Len(r.failures) = Len(r.errors)
    /\ Len(r.errors) = Len(r.badSkips)
    /\ Len(r.badSkips) = Len(r.timeouts)
    /\ Len(r.timeouts) = 0

\* wasPerfect with the ok skips not looked at.
wasPerfectNoSkips(r) == wasSuccessful(r)

\* self.wasSuccessful() and len(self.okSkips) == 0
wasPerfect(r) == wasSuccessful(r) /\ Len(r.okSkips) = 0

\* One result.add* call: the method applied, and whether it raised.
CallRaises(method, err) ==
    CASE method \in {"addOkSkip", "addExclude", "addBadSkip", "addTimeout"} ->
            osg_exc_info_to_string(err).raised
      [] method \in {"addError", "addFailure", "addExpectedFailure"} ->
            ExcInfoToString(err).raised
      [] OTHER -> FALSE

CallResult(r, method, test, err) ==
    CASE method = "addOkSkip" -> addOkSkip(r, test, err)
      [] method = "addExclude" -> addExclude(r, test, err)
      [] method = "addBadSkip" -> addBadSkip(r, test, err)
      [] method = "addTimeout" -> addTimeout(r, test, err)
      [] method = "addError" -> addError(r, test, err)
      [] method = "addFailure" -> addFailure(r, test, err)
      [] method = "addExpectedFailure" -> addExpectedFailure(r, test, err)
      [] method = "addUnexpectedSuccess" -> addUnexpectedSuccess(r, test)
      [] method = "addSkip" -> addSkip(r, test, err)
      [] method = "addSuccess" -> addSuccess(r, test)

\* ----------------------------------------------------------- outcome tracker

\* _Outcome.__init__; expecting_failure is kept beside it.
NewOutcome ==
    [expecting_failure |-> FALSE, result_supports_subtests |-> TRUE,
     success |-> TRUE, okSkipped |-> <<>>, badSkipped |-> <<>>,
     excluded |-> <<>>, timedOut |-> <<>>, expectedFailure |-> NoExcInfo,
     errors |-> <<>>]

\* The except/else clauses of _Outcome.testPartExecutor, for a body that
\* raised e (or NoRaise), entered with success already set to True.
Caught(o, test_case, e) ==
    CASE e.type = "KeyboardInterrupt" -> o
      [] e.type \in {"SkipTest", "OkSkipException"} ->
            [o EXCEPT !.success = FALSE,
                      !.okSkipped = Append(@, <<test_case, Str(e.msg)>>)]
      [] e.type = "BadSkipException" ->
            [o EXCEPT !.success = FALSE,
                      !.badSkipped = Append(@, <<test_case, Str(e.msg)>>)]
      [] e.type = "ExcludedException" ->
            [o EXCEPT !.excluded = Append(@, <<test_case, Str(e.msg)>>)]
      [] e.type = "TimeoutException" ->
            [o EXCEPT !.success = FALSE,
                      !.timedOut = Append(@, <<test_case, Str(e.msg)>>)]
      [] e.type = "_ShouldStop" -> o
      [] e.type = "NoRaise" ->
            IF o.result_supports_subtests /\ o.success
            THEN [o EXCEPT !.errors = Append(@, <<test_case, NoExcInfo>>)]
            ELSE o
      [] OTHER ->
            IF o.expecting_failure
            THEN [o EXCEPT !.expectedFailure = ExcInfo(e)]
            ELSE [o EXCEPT !.success = FALSE,
                           !.errors = Append(@, <<test_case, ExcInfo(e)>>)]

\* testPartExecutor with "self.success = self.success and old_success" left out.
testPartExecutorForgetful(o, test_case, e) ==
    Caught([o EXCEPT !.success = TRUE], test_case, e)

\* _Outcome.testPartExecutor around a body that raises e.
testPartExecutor(o, test_case, e) ==
    LET old_success == o.success
        caught == Caught([o EXCEPT !.success = TRUE], test_case, e)
    IN  [caught EXCEPT !.success = caught.success /\ old_success]

\* Whether the exception leaves the with statement.
Propagates(e) == e.type = "KeyboardInterrupt"

\* ------------------------------------------------------------ test case run

\* issubclass(exctype, self.failureException), failureException being
\* AssertionError.
IsFailureException(exctype) == exctype \in SkipExcTypes \cup {"AssertionError"}

Call(method, test, err) == [method |-> method, test |-> test, err |-> err]

\* The calls "for test, reason in entries: result.<method>(test, reason)" makes.
SkipCalls(method, entries) ==
    [i \in 1..Len(entries) |-> Call(method, entries[i][1], entries[i][2])]

\* OSGTestCase._feedErrorsToResult, without subtests: None entries are passed over.
RECURSIVE ErrorCalls(_)
ErrorCalls(errors) ==
    IF Len(errors) = 0 THEN <<>>
    ELSE LET test == Head(errors)[1]
             exc_info == Head(errors)[2]
         IN  IF Len(exc_info) = 0 THEN ErrorCalls(Tail(errors))
             ELSE IF IsFailureException(exc_info[1])
             THEN <<Call("addFailure", test, exc_info)>> \o ErrorCalls(Tail(errors))
             ELSE <<Call("addError", test, exc_info)>> \o ErrorCalls(Tail(errors))

\* SuccessCalls with the test of outcome.success left out.
SuccessCallsAlways(o, test, expecting) ==
    IF expecting
    THEN IF Len(o.expectedFailure) # 0
         THEN <<Call("addExpectedFailure", test, o.expectedFailure)>>
         ELSE <<Call("addUnexpectedSuccess", test, <<>>)>>
    ELSE <<Call("addSuccess", test, <<>>)>>

\* The "if outcome.success:" block at the end of OSGTestCase.run.
SuccessCalls(o, test, expecting) ==
    IF ~o.success THEN <<>>
    ELSE IF expecting
    THEN IF Len(o.expectedFailure) # 0
         THEN <<Call("addExpectedFailure", test, o.expectedFailure)>>
         ELSE <<Call("addUnexpectedSuccess", test, <<>>)>>
    ELSE <<Call("addSuccess", test, <<>>)>>

\* The calls OSGTestCase.run makes on the result after doCleanups, in order.
FeedCalls(o, test, expecting, isOSG) ==
    (IF isOSG
     THEN SkipCalls("addOkSkip", o.okSkipped) \o SkipCalls("addBadSkip", o.badSkipped)
          \o SkipCalls("addExclude", o.excluded) \o SkipCalls("addTimeout", o.timedOut)
     ELSE <<>>)
    \o ErrorCalls(o.errors)
    \o SuccessCalls(o, test, expecting)

\* The calls made one after another until one raises.
RECURSIVE Feed(_, _)
Feed(st, items) ==
    IF Len(items) = 0 \/ st.raised THEN st
    ELSE LET c == Head(items)
         IN  Feed([r |-> CallResult(st.r, c.method, c.test, c.err),
                   calls |-> Append(st.calls, <<c.method, c.test>>),
                   raised |-> CallRaises(c.method, c.err)],
                  Tail(items))

\* SuiteBreaks with the check of shouldStop left out.
SuiteNeverBreaks(r) == FALSE

\* "if result.shouldStop: break" of OSGTestSuite.run.
SuiteBreaks(r) == r.shouldStop

\* An exception leaves OSGTestCase.run: its finally clause, then
\* OSGTestSuite.run, which catches nothing.
RunRaises ==
    /\ pc' = "idle"
    /\ runStatus' = "raised"
    /\ suitePc' = "raised"
    /\ outcome' = NewOutcome
    /\ UNCHANGED <<idx, expecting_failure>>

\* OSGTestSuite.run takes the next test and calls it; OSGTestCase.run up to
\* the creation of the outcome, for a test that no decorator skips.
RunStart ==
    /\ suitePc = "loop" /\ pc = "idle"
    /\ idx <= NumTests
    /\ ~SuiteBreaks(result)
    /\ \E ef \in BOOLEAN : expecting_failure' = ef
    /\ started' = Append(started, <<idx, result.shouldStop>>)
    /\ result' = startTest(result, idx)
    /\ outcome' = NewOutcome
    /\ parts' = <<>>
    /\ runStatus' = "running"
    /\ pc' = "setUp"
    /\ UNCHANGED <<isOSGTestResult, calls, suitePc, idx, helper, extVars>>

\* The same for a test whose class or method carries __unittest_skip__.
RunSkipped ==
    /\ suitePc = "loop" /\ pc = "idle"
    /\ idx <= NumTests
    /\ ~SuiteBreaks(result)
    /\ started' = Append(started, <<idx, result.shouldStop>>)
    /\ \E skip_why \in Strs :
          result' = addSkip(startTest(result, idx), idx, skip_why)
    /\ calls' = Append(calls, <<"addSkip", idx>>)
    /\ parts' = <<>>
    /\ runStatus' = "returned"
    /\ idx' = idx + 1
    /\ UNCHANGED <<isOSGTestResult, suitePc, pc, outcome, expecting_failure, helper, extVars>>

\* "with outcome.testPartExecutor(self): self.setUp()"
SetUp ==
    /\ pc = "setUp"
    /\ \E e \in Raisable :
          LET o == testPartExecutor(outcome, idx, e)
          IN  /\ parts' = Append(parts, <<"setUp", e.type, e.msg>>)
              /\ IF Propagates(e)
                 THEN RunRaises
                 ELSE /\ outcome' = o
                      /\ pc' = IF o.success THEN "testMethod" ELSE "doCleanups"
                      /\ UNCHANGED <<suitePc, idx, expecting_failure, runStatus>>
    /\ UNCHANGED <<result, isOSGTestResult, calls, started, helper, extVars>>

\* "outcome.expecting_failure = expecting_failure", the test method under the
\* executor, "outcome.expecting_failure = False".
TestMethod ==
    /\ pc = "testMethod"
    /\ \E e \in Raisable :
          LET o == testPartExecutor(
                       [outcome EXCEPT !.expecting_failure = expecting_failure], idx, e)
          IN  /\ parts' = Append(parts, <<"testMethod", e.type, e.msg>>)
              /\ IF Propagates(e)
                 THEN RunRaises
                 ELSE /\ outcome' = [o EXCEPT !.expecting_failure = FALSE]
                      /\ pc' = "tearDown"
                      /\ UNCHANGED <<suitePc, idx, expecting_failure, runStatus>>
    /\ UNCHANGED <<result, isOSGTestResult, calls, started, helper, extVars>>

\* "with outcome.testPartExecutor(self): self.tearDown()"
TearDown ==
    /\ pc = "tearDown"
    /\ \E e \in Raisable :
          LET o == testPartExecutor(outcome, idx, e)
          IN  /\ parts' = Append(parts, <<"tearDown", e.type, e.msg>>)
              /\ IF Propagates(e)
                 THEN RunRaises
                 ELSE /\ outcome' = o
                      /\ pc' = "doCleanups"
                      /\ UNCHANGED <<suitePc, idx, expecting_failure, runStatus>>
    /\ UNCHANGED <<result, isOSGTestResult, calls, started, helper, extVars>>

\* "self.doCleanups()": no test of the repository registers a cleanup
\* (addCleanup is never called), so the loop of doCleanups has nothing to run.
DoCleanups ==
    /\ pc = "doCleanups"
    /\ parts' = Append(parts, <<"doCleanups", NoRaise.type, NoRaise.msg>>)
    /\ pc' = "feed"
    /\ UNCHANGED <<result, isOSGTestResult, calls, suitePc, idx, started, outcome,
                   expecting_failure, runStatus, helper, extVars>>

\* The rest of OSGTestCase.run: the outcome is fed to the result; the finally
\* clause; the return to OSGTestSuite.run's loop.
FeedResult ==
    /\ pc = "feed"
    /\ LET fed == Feed([r |-> result, calls |-> calls, raised |-> FALSE],
                       FeedCalls(outcome, idx, expecting_failure, isOSGTestResult))
       IN  /\ result' = fed.r
           /\ calls' = fed.calls
           /\ IF fed.raised
              THEN RunRaises
              ELSE /\ pc' = "idle"
                   /\ runStatus' = "returned"
                   /\ outcome' = NewOutcome
                   /\ idx' = idx + 1
                   /\ UNCHANGED <<suitePc, expecting_failure>>
    /\ UNCHANGED <<isOSGTestResult, started, parts, helper, extVars>>

\* OSGTestSuite.run leaves its loop (the tests are exhausted, or the break)
\* and returns the result.
SuiteReturn ==
    /\ suitePc = "loop" /\ pc = "idle"
    /\ idx > NumTests \/ SuiteBreaks(result)
    /\ suitePc' = "returned"
    /\ UNCHANGED <<result, isOSGTestResult, calls, idx, started, pc, outcome,
                   expecting_failure, parts, runStatus, helper, extVars>>

\* Nothing written by the runner yet.
NoReport == [written |-> FALSE, verbosity |-> 0, printed |-> <<>>, ok |-> FALSE, infos |-> <<>>]

\* core.state without the started-service flag, no call of the service library.
NoService ==
    [flag |-> "unset", running |-> FALSE, foreign |-> FALSE, log |-> <<>>,
     last |-> [fn |-> "none", foreign |-> FALSE, cmds |-> <<>>, raised |-> "NoRaise"]]

\* No call of check_status.
NoPoll ==
    [called |-> FALSE, polls |-> <<>>, expected_status |-> 0, timeout |-> 0,
     ret |-> FALSE, polled |-> 0]

\* core.state without 'xrootd.tpc.had-failures', no wrapped function called.
NoTpc == [flag |-> "unset", log |-> <<>>]

\* No call of output_is_acceptable, no fetch-crl test run.
NoCrl ==
    [fn |-> "none", status |-> 0, output |-> <<>>, called |-> FALSE,
     ret |-> FALSE, log |-> <<>>, check |-> "none", raised |-> "NoRaise"]

\* core.state before TestVOMS: 'voms.got-proxy' not set, no test run.
NoVoms ==
    [got_proxy |-> "unset", proxy_valid |-> "unset", next |-> 1,
     aborted |-> FALSE, log |-> <<>>]

NoHelper ==
    [fn |-> "none", expr |-> "None", msg |-> NoneMsg, services |-> <<>>,
     status |-> <<>>, raised |-> NoRaise, polled |-> <<>>]

\* A suite of NumTests test cases is about to be run against a fresh result,
\* an OSGTestResult or a plain unittest.TestResult.
Init ==
    /\ \E ff \in BOOLEAN : result = NewResult(ff)
    /\ isOSGTestResult \in BOOLEAN
    /\ calls = <<>>
    /\ suitePc = "loop"
    /\ idx = 1
    /\ started = <<>>
    /\ pc = "idle"
    /\ outcome = NewOutcome
    /\ expecting_failure = FALSE
    /\ parts = <<>>
    /\ runStatus = "none"
    /\ helper = NoHelper
    /\ report = NoReport
    /\ service = NoService
    /\ poll = NoPoll
    /\ tpc = NoTpc
    /\ crl = NoCrl
    /\ voms = NoVoms

Next ==
    \/ RunStart
    \/ RunSkipped
    \/ SetUp
    \/ TestMethod
    \/ TearDown
    \/ DoCleanups
    \/ FeedResult
    \/ SuiteReturn

Spec == Init /\ [][Next]_vars

\* ------------------------------------------- the result collector by itself

\* The exc_info tuples handed to the add* methods (their documented argument).
ApiExcInfos ==
    {ExcInfo([type |-> t, msg |-> <<"a">>]) :
        t \in {"OkSkipException", "BadSkipException", "AssertionError"}}

ErrMethods ==
    {"addOkSkip", "addExclude", "addBadSkip", "addTimeout", "addError", "addFailure"}

\* The variables the result specification leaves alone.
runVars ==
    <<isOSGTestResult, suitePc, idx, started, pc, outcome, expecting_failure,
      parts, runStatus, helper, extVars>>

\* result.<method>(test, sys.exc_info())
ApiAddExcInfo ==
    /\ Len(calls) < MaxCalls
    /\ \E method \in ErrMethods, err \in ApiExcInfos :
          /\ result' = CallResult(result, method, 1, err)
          /\ calls' = Append(calls, <<method, 1>>)
    /\ UNCHANGED runVars

\* result.<method>(test, reason), the reason a str as OSGTestCase.run passes it
ApiAddStr ==
    /\ Len(calls) < MaxCalls
    /\ \E method \in ErrMethods, err \in Strs :
          /\ result' = CallResult(result, method, 1, err)
          /\ calls' = Append(calls, <<method, 1>>)
    /\ UNCHANGED runVars

\* result.addSuccess(test), addSkip(test, reason), addUnexpectedSuccess(test),
\* addExpectedFailure(test, sys.exc_info())
ApiAddOther ==
    /\ Len(calls) < MaxCalls
    /\ \E method \in {"addSuccess", "addSkip", "addUnexpectedSuccess",
                      "addExpectedFailure"} :
          /\ result' = CallResult(result, method, 1,
                           IF method = "addExpectedFailure"
                           THEN ExcInfo([type |-> "AssertionError", msg |-> <<>>])
                           ELSE <<>>)
          /\ calls' = Append(calls, <<method, 1>>)
    /\ UNCHANGED runVars

\* A fresh OSGTestResult, no suite running.
InitResult ==
    /\ \E ff \in BOOLEAN : result = NewResult(ff)
    /\ isOSGTestResult = TRUE
    /\ calls = <<>>
    /\ suitePc = "returned"
    /\ idx = 1
    /\ started = <<>>
    /\ pc = "idle"
    /\ outcome = NewOutcome
    /\ expecting_failure = FALSE
    /\ parts = <<>>
    /\ runStatus = "none"
    /\ helper = NoHelper
    /\ report = NoReport
    /\ service = NoService
    /\ poll = NoPoll
    /\ tpc = NoTpc
    /\ crl = NoCrl
    /\ voms = NoVoms

NextResult ==
    \/ ApiAddExcInfo
    \/ ApiAddStr
    \/ ApiAddOther

SpecResult == InitResult /\ [][NextResult]_vars

\* ------------------------------------------------------------ text report

\* The variables of the test case run, the result and the skip helper.
testVars ==
    <<result, isOSGTestResult, calls, suitePc, idx, started, pc, outcome,
      expecting_failure, parts, runStatus, helper>>

\* One line written to the stream.  A line is kept as what it is made of: the
\* flavour and the test of a header, the test and the text of a skip line, the
\* text of an error.
Line(kind, flavour, test, text) ==
    [kind |-> kind, flavour |-> flavour, test |-> test, text |-> text]

\* writeln(self.separator1), writeln(self.separator2), writeln("")
Separator1 == Line("separator1", "", 0, <<>>)

Separator2 == Line("separator2", "", 0, <<>>)

BlankLine == Line("blank", "", 0, <<>>)

\* The verbosity the runner hands to the result; TextTestResult.__init__ sets
\* showAll = verbosity > 1 and dots = verbosity == 1.
Verbosities == {0, 1, 2}

\* OSGTextTestResult.printErrorList
RECURSIVE printErrorList(_, _)
printErrorList(flavour, errors) ==
    IF Len(errors) = 0 THEN <<>>
    ELSE LET test == Head(errors)[1]
             err == Head(errors)[2]
         IN  <<Separator1, Line("error header", flavour, test, <<>>), Separator2,
               Line("text", "", 0, err)>>
             \o printErrorList(flavour, Tail(errors))

\* The section printSkipList writes for a list.
SkipSection(flavour, skips) ==
    <<Separator1, Line("skip header", flavour, 0, <<>>), Separator2>>
    \o [i \in 1..Len(skips) |-> Line("skip", "", skips[i][1], skips[i][2])]
    \o <<BlankLine>>

\* printSkipList with "if not skips: return" left out.
printSkipListAlways(flavour, skips) == SkipSection(flavour, skips)

\* OSGTextTestResult.printSkipList
printSkipList(flavour, skips) ==
    IF Len(skips) = 0 THEN <<>> ELSE SkipSection(flavour, skips)

\* OSGTextTestResult.printErrors
printErrors(r, verbosity) ==
    (IF verbosity >= 1 THEN <<BlankLine>> ELSE <<>>)
    \o printErrorList("ERROR", r.errors)
    \o printErrorList("FAIL", r.failures)
    \o printErrorList("TIMEOUT", r.timeouts)
    \o printSkipList("BAD SKIPS", r.badSkips)
    \o printSkipList("OK SKIPS", r.okSkips)
    \o printSkipList("EXCLUDED", r.excludes)

\* "if n: infos.append("<name>=%d" % n)"
Info(name, n) == IF n # 0 THEN <<<<name, n>>>> ELSE <<>>

\* The end of OSGTextTestRunner.run: whether "OK" is written, and the infos
\* joined into the parenthesis after it.  The local "skipped" is set to 0 and
\* never assigned again.
Summary(r) ==
    LET skipped == 0
        expectedFails == Len(r.expectedFailures)
        unexpectedSuccesses == Len(r.unexpectedSuccesses)
    IN  [ok |-> wasSuccessful(r),
         infos |->
            (IF ~wasSuccessful(r)
             THEN Info("failures", Len(r.failures))
                  \o Info("errors", Len(r.errors))
                  \o Info("badSkips", Len(r.badSkips))
                  \o Info("timeouts", Len(r.timeouts))
                  \o Info("okSkips", Len(r.okSkips))
             ELSE <<>>)
            \o Info("skipped", skipped)
            \o Info("expected failures", expectedFails)
            \o Info("unexpected successes", unexpectedSuccesses)]

\* "test(result)" of OSGTextTestRunner.run: the tests report to the result.
\* A call that raises (ApiAddStr) leaves run through its "finally" and nothing
\* is written after it, so the calls that lead to a report are the others.
RunnerTest ==
    /\ ~report.written
    /\ ApiAddExcInfo \/ ApiAddOther

\* OSGTextTestRunner.run after the tests: result.printErrors(), then the
\* summary.
RunnerReport ==
    /\ ~report.written
    /\ \E verbosity \in Verbosities :
          report' = [written |-> TRUE, verbosity |-> verbosity,
                     printed |-> printErrors(result, verbosity),
                     ok |-> Summary(result).ok,
                     infos |-> Summary(result).infos]
    /\ UNCHANGED <<testVars, service, poll, tpc, crl, voms>>

NextReport ==
    \/ RunnerTest
    \/ RunnerReport

\* The runner with a fresh OSGTextTestResult.
SpecReport == InitResult /\ [][NextReport]_vars

\* ------------------------------------------------------- service status polls

\* "status_rc = None" before the first poll.
NoStatus == -1

\* The default timeout of is_running and is_stopped.
DefaultPollTimeout == 1

\* The exit codes of "systemctl is-active": active, inactive, anything else.
StatusCodes == {STATUS_RUNNING, STATUS_STOPPED, 4}

\* CheckStatusLoop without the test of status_rc: every poll is made.
RECURSIVE CheckStatusLoopNoEarlyExit(_, _, _, _, _)
CheckStatusLoopNoEarlyExit(timer, status_rc, polls, expected_status, timeout) ==
    IF timer < timeout
    THEN CheckStatusLoopNoEarlyExit(timer + 1, polls[timer + 1], polls,
                                    expected_status, timeout)
    ELSE [status_rc |-> status_rc, timer |-> timer]

\* The while loop of service.check_status; polls[i] is what the i-th call of
\* status() returns.
RECURSIVE CheckStatusLoop(_, _, _, _, _)
CheckStatusLoop(timer, status_rc, polls, expected_status, timeout) ==
    IF timer < timeout /\ status_rc # expected_status
    THEN CheckStatusLoop(timer + 1, polls[timer + 1], polls, expected_status, timeout)
    ELSE [status_rc |-> status_rc, timer |-> timer]

\* service.check_status: the value returned and the number of polls made.
check_status(polls, expected_status, timeout) ==
    LET end == CheckStatusLoop(0, NoStatus, polls, expected_status, timeout)
    IN  [ret |-> end.status_rc = expected_status, polled |-> end.timer]

is_running(polls) == check_status(polls, STATUS_RUNNING, DefaultPollTimeout)

is_stopped(polls, timeout) == check_status(polls, STATUS_STOPPED, timeout)

\* A call of check_status(name, expected_status, timeout) by itself: status()
\* returns polls[1], polls[2], ... (as many values as the largest timeout).
\* The log lines written when the status is not the expected one are no state.
CheckStatus ==
    /\ ~poll.called
    /\ \E polls \in [1..MaxTimeout -> StatusCodes],
          expected_status \in {STATUS_RUNNING, STATUS_STOPPED},
          timeout \in -1..MaxTimeout :
          LET r == check_status(polls, expected_status, timeout)
          IN  poll' = [called |-> TRUE, polls |-> polls,
                       expected_status |-> expected_status, timeout |-> timeout,
                       ret |-> r.ret, polled |-> r.polled]
    /\ UNCHANGED <<testVars, report, service, tpc, crl, voms>>

SpecPoll == InitResult /\ [][CheckStatus]_vars

\* ------------------------------------------------------ starting and stopping

\* The default timeout of check_start and check_stop.
CheckTimeout == 10

\* command = ('systemctl', verb, service_name)
Command(verb) == <<"systemctl", verb, "xrootd@instance">>

\* core.check_system(command, message): returns when the command exits with
\* the expected status 0, raises otherwise.
check_system(ok) == IF ok THEN "NoRaise" ELSE "AssertionError"

\* What a call of the service library leaves: the commands it issued, the
\* started-service flag and the service after it, the exception it raised.
Left(cmds, flag, running, raised) ==
    [cmds |-> cmds, flag |-> flag, running |-> running, raised |-> raised]

\* service.start that sets the flag before the command is checked.
startFlagFirst(flag, running, force, ok) ==
    IF ~force /\ flag = "True"
    THEN Left(<<>>, flag, running, "NoRaise")
    ELSE Left(<<Command("start")>>, "True", IF ok THEN TRUE ELSE running,
              check_system(ok))

\* service.start; core.skip only logs.  A start command that succeeds leaves
\* the service running.
start(flag, running, force, ok) ==
    IF ~force /\ flag = "True"
    THEN Left(<<>>, flag, running, "NoRaise")
    ELSE Left(<<Command("start")>>, IF ok THEN "True" ELSE flag,
              IF ok THEN TRUE ELSE running, check_system(ok))

\* service.stop without the test of the flag.
stopUnflagged(flag, running, force, ok) ==
    Left(<<Command("stop")>>, IF ok THEN "False" ELSE flag,
         IF ok THEN FALSE ELSE running, check_system(ok))

\* service.stop.  A stop command that succeeds leaves the service stopped.
stop(flag, running, force, ok) ==
    IF ~force /\ flag # "True"
    THEN Left(<<>>, flag, running, "NoRaise")
    ELSE Left(<<Command("stop")>>, IF ok THEN "False" ELSE flag,
              IF ok THEN FALSE ELSE running, check_system(ok))

\* What status() returns for the service, and the polls of one call (the
\* service does not change while it is polled).
StatusOf(running) == IF running THEN STATUS_RUNNING ELSE STATUS_STOPPED

Polls(running, timeout) == [i \in 1..timeout |-> StatusOf(running)]

\* service.check_start: start, then "assert is_running(...)".
check_start(flag, running, force, ok) ==
    LET s == start(flag, running, force, ok)
    IN  IF s.raised # "NoRaise" THEN s
        ELSE IF check_status(Polls(s.running, CheckTimeout), STATUS_RUNNING,
                             CheckTimeout).ret
        THEN s
        ELSE [s EXCEPT !.raised = "AssertionError"]

\* service.check_stop: stop, then "assert is_stopped(...)".
check_stop(flag, running, force, ok) ==
    LET s == stop(flag, running, force, ok)
    IN  IF s.raised # "NoRaise" THEN s
        ELSE IF is_stopped(Polls(s.running, CheckTimeout), CheckTimeout).ret
        THEN s
        ELSE [s EXCEPT !.raised = "AssertionError"]

\* start_xrootd of test_155_stashcache: the service is started unless
\* is_running finds it running; the except clause logs and re-raises.
start_xrootd(flag, running, ok) ==
    IF is_running(Polls(running, DefaultPollTimeout)).ret
    THEN Left(<<>>, flag, running, "NoRaise")
    ELSE check_start(flag, running, FALSE, ok)

\* stop_xrootd of test_835_stashcache
stop_xrootd(flag, running, ok) == check_stop(flag, running, FALSE, ok)

\* The entry the log keeps of a call of start or stop (r is what that call
\* left), made by a test or by check_start / check_stop.
LogEntry(op, force, ok, r) ==
    [op |-> op, force |-> force, ok |-> ok, cmds |-> r.cmds,
     before |-> service.flag, after |-> r.flag, raised |-> r.raised]

\* The state after a call fn that left r: "foreign" stays true as long as the
\* service that start_xrootd found running and unflagged keeps running with no
\* command issued for it.
AfterCall(fn, found, r, entries) ==
    [flag |-> r.flag, running |-> r.running,
     foreign |-> (service.foreign \/ found) /\ r.cmds = <<>> /\ r.running,
     log |-> service.log \o entries,
     last |-> [fn |-> fn, foreign |-> service.foreign, cmds |-> r.cmds,
               raised |-> r.raised]]

\* service.start(name, force)
Start ==
    /\ Len(service.log) < MaxSvcCalls
    /\ \E force \in BOOLEAN, ok \in BOOLEAN :
          LET r == start(service.flag, service.running, force, ok)
          IN  service' = AfterCall("start", FALSE, r, <<LogEntry("start", force, ok, r)>>)
    /\ UNCHANGED <<testVars, report, poll, tpc, crl, voms>>

\* service.stop(name, force)
Stop ==
    /\ Len(service.log) < MaxSvcCalls
    /\ \E force \in BOOLEAN, ok \in BOOLEAN :
          LET r == stop(service.flag, service.running, force, ok)
          IN  service' = AfterCall("stop", FALSE, r, <<LogEntry("stop", force, ok, r)>>)
    /\ UNCHANGED <<testVars, report, poll, tpc, crl, voms>>

\* start_xrootd(instance)
StartXrootd ==
    /\ Len(service.log) < MaxSvcCalls
    /\ \E ok \in BOOLEAN :
          LET r == start_xrootd(service.flag, service.running, ok)
              found == is_running(Polls(service.running, DefaultPollTimeout)).ret
          IN  service' = AfterCall("start_xrootd", found /\ service.flag # "True", r,
                                 IF found THEN <<>>
                                 ELSE <<LogEntry("start", FALSE, ok,
                                                 start(service.flag, service.running,
                                                       FALSE, ok))>>)
    /\ UNCHANGED <<testVars, report, poll, tpc, crl, voms>>

\* stop_xrootd(instance)
StopXrootd ==
    /\ Len(service.log) < MaxSvcCalls
    /\ \E ok \in BOOLEAN :
          LET r == stop_xrootd(service.flag, service.running, ok)
          IN  service' = AfterCall("stop_xrootd", FALSE, r,
                                 <<LogEntry("stop", FALSE, ok,
                                            stop(service.flag, service.running,
                                                 FALSE, ok))>>)
    /\ UNCHANGED <<testVars, report, poll, tpc, crl, voms>>

\* Between two calls the service is started or stopped by something else (it
\* was installed running, it crashes).
ServiceChanges ==
    /\ service' = [service EXCEPT !.running = ~@, !.foreign = FALSE]
    /\ UNCHANGED <<testVars, report, poll, tpc, crl, voms>>

NextService ==
    \/ Start
    \/ Stop
    \/ StartXrootd
    \/ StopXrootd
    \/ ServiceChanges

SpecService == InitResult /\ [][NextService]_vars

\* ------------------------------------------------ recording of TPC failures

\* What a wrapped test function does when called: it raises e, or it returns
\* val (test methods return None; the decorator passes any value on).
TestOutcomes ==
    {[e |-> e, val |-> "none"] : e \in Raisable \ {NoRaise}}
    \cup {[e |-> NoRaise, val |-> v] : v \in {"None", "value"}}

\* The decorator without its first except clause: every AssertionError is
\* recorded, the skips included.
record_every_assertion(flag, fn) ==
    [flag |-> IF IsFailureException(fn.e.type) THEN "True" ELSE flag,
     raised |-> fn.e, ret |-> fn.val]

\* inner() of xrootd_tpc_record_failure(fn), called when
\* core.state['xrootd.tpc.had-failures'] is flag and fn does what "fn" says:
\* the flag, the exception and the value it leaves.
xrootd_tpc_record_failure(flag, fn) ==
    IF fn.e.type = "NoRaise"
    THEN [flag |-> flag, raised |-> NoRaise, ret |-> fn.val]
    ELSE IF fn.e.type \in {"OkSkipException", "BadSkipException", "ExcludedException"}
    THEN [flag |-> flag, raised |-> fn.e, ret |-> "none"]
    ELSE IF IsFailureException(fn.e.type)
    THEN [flag |-> "True", raised |-> fn.e, ret |-> "none"]
    ELSE [flag |-> flag, raised |-> fn.e, ret |-> "none"]

\* A decorated test of TestXrootdTPC is called.
WrappedTest ==
    /\ Len(tpc.log) < MaxTpcCalls
    /\ \E fn \in TestOutcomes :
          LET r == xrootd_tpc_record_failure(tpc.flag, fn)
          IN  tpc' = [flag |-> r.flag,
                      log |-> Append(tpc.log,
                                     [fn |-> fn, before |-> tpc.flag, after |-> r.flag,
                                      raised |-> r.raised, ret |-> r.ret])]
    /\ UNCHANGED <<testVars, report, service, poll, crl, voms>>

SpecTpc == InitResult /\ [][WrappedTest]_vars

\* ------------------------------------------------------- fetch-crl output

\* The characters of the output of fetch-crl: the newline, the blank, "V"
\* for the text VERBOSE(0), "W" for one of the five phrases the whitelist
\* looks for anywhere in a line, "x" for any other character.
CrlChars == {"\n", " ", "V", "W", "x"}

CrlTexts == UNION {[1..n -> CrlChars] : n \in 0..MaxOutLen}

\* The exit status of fetch-crl: 0, 1, anything else.
ExitStatuses == {0, 1, 2}

\* s.rstrip('\n')
RECURSIVE RStripNewlines(_)
RStripNewlines(s) ==
    IF Len(s) > 0 /\ s[Len(s)] = "\n"
    THEN RStripNewlines(SubSeq(s, 1, Len(s) - 1))
    ELSE s

\* s.split('\n'): one piece more than there are newlines.
RECURSIVE SplitLines(_)
SplitLines(s) ==
    IF \A i \in 1..Len(s) : s[i] # "\n" THEN <<s>>
    ELSE LET k == CHOOSE i \in 1..Len(s) :
                     s[i] = "\n" /\ \A j \in 1..(i - 1) : s[j] # "\n"
         IN  <<SubSeq(s, 1, k - 1)>> \o SplitLines(SubSeq(s, k + 1, Len(s)))

\* line.strip()
RECURSIVE Strip(_)
Strip(line) ==
    IF Len(line) > 0 /\ line[1] = " " THEN Strip(Tail(line))
    ELSE IF Len(line) > 0 /\ line[Len(line)] = " "
    THEN Strip(SubSeq(line, 1, Len(line) - 1))
    ELSE line

\* error_message_whitelist: r'^VERBOSE\(0\)' is anchored at the start of the
\* line, the other patterns are looked for anywhere.
error_message_whitelist ==
    <<[anchored |-> TRUE, text |-> "V"], [anchored |-> FALSE, text |-> "W"]>>

\* re.search(error_string, line)
Search(error_string, line) ==
    IF error_string.anchored
    THEN Len(line) > 0 /\ line[1] = error_string.text
    ELSE \E i \in 1..Len(line) : line[i] = error_string.text

\* The inner loop over the whitelist.
LineOk(line) ==
    \E k \in 1..Len(error_message_whitelist) :
        Search(error_message_whitelist[k], line)

\* ScanLines with "if not line: continue" left out.
RECURSIVE ScanEveryLine(_)
ScanEveryLine(lines) ==
    IF Len(lines) = 0 THEN [ret |-> TRUE, log |-> <<>>]
    ELSE IF LineOk(Head(lines)) THEN ScanEveryLine(Tail(lines))
    ELSE [ret |-> FALSE, log |-> <<Strip(Head(lines))>>]

\* The loop over the lines: what is returned, and the lines core.log_message
\* is called with.
RECURSIVE ScanLines(_)
ScanLines(lines) ==
    IF Len(lines) = 0 THEN [ret |-> TRUE, log |-> <<>>]
    ELSE IF Len(Head(lines)) = 0 THEN ScanLines(Tail(lines))
    ELSE IF LineOk(Head(lines)) THEN ScanLines(Tail(lines))
    ELSE [ret |-> FALSE, log |-> <<Strip(Head(lines))>>]

output_is_acceptable(fetch_crl_output) ==
    ScanLines(SplitLines(RStripNewlines(fetch_crl_output)))

\* output_is_acceptable called by itself.
OutputIsAcceptable ==
    /\ crl.fn = "none"
    /\ \E fetch_crl_output \in CrlTexts :
          LET r == output_is_acceptable(fetch_crl_output)
          IN  crl' = [NoCrl EXCEPT !.fn = "output_is_acceptable",
                                   !.output = fetch_crl_output, !.called = TRUE,
                                   !.ret = r.ret, !.log = r.log]
    /\ UNCHANGED <<testVars, report, service, poll, tpc, voms>>

\* A test of TestFetchCrl (test_01_fetch_crl, test_02_fetch_crl_dir): the two
\* differ in the command and in the directory whose CRLs are counted.
\* "installed" is what the two skip_ok_unless_installed calls find, status,
\* stdout and stderr what core.system returns, many_crls whether count > 3.
FetchCrlTest(fn, installed, status, stdout, stderr, many_crls) ==
    LET output == stdout \o <<"\n">> \o stderr
        r == output_is_acceptable(output)
        passed == IF status = 1 THEN r.ret ELSE status = 0
    IN  IF ~installed
        THEN [NoCrl EXCEPT !.fn = fn, !.raised = "OkSkipException"]
        ELSE [fn |-> fn, status |-> status, output |-> output,
              called |-> status = 1,
              ret |-> status = 1 /\ r.ret,
              log |-> IF status = 1 THEN r.log ELSE <<>>,
              check |-> IF passed THEN "pass" ELSE "fail",
              raised |-> IF passed /\ many_crls THEN "NoRaise" ELSE "AssertionError"]

FetchCrl ==
    /\ crl.fn = "none"
    /\ \E fn \in {"test_01_fetch_crl", "test_02_fetch_crl_dir"},
          installed \in BOOLEAN, status \in ExitStatuses,
          stdout \in CrlTexts, stderr \in CrlTexts, many_crls \in BOOLEAN :
          crl' = FetchCrlTest(fn, installed, status, stdout, stderr, many_crls)
    /\ UNCHANGED <<testVars, report, service, poll, tpc, voms>>

NextCrl ==
    \/ OutputIsAcceptable
    \/ FetchCrl

SpecCrl == InitResult /\ [][NextCrl]_vars

\* ---------------------------------------------------------------- TestVOMS

\* The test methods of TestVOMS in numeric order; a test case is its index.
VomsTests ==
    <<"test_00_setup", "test_06_voms_proxy_direct", "test_07_voms_proxy_info",
      "test_08_voms_proxy_check", "test_09_basic_grid_proxy">>

\* The reason 'no proxy', and a word for the reason of any other skip.
NoProxyMsg == <<"n", "o", " ", "p", "r", "o", "x", "y">>

OtherMsg == <<"s", "k", "i", "p">>

OkSkipped == [type |-> "OkSkipException", msg |-> OtherMsg]

NoProxy == [type |-> "BadSkipException", msg |-> NoProxyMsg]

\* A failed command, assertion or self.fail(); the KeyError of a core.state
\* key that is not set.
Failed == [type |-> "AssertionError", msg |-> <<>>]

NoKey == [type |-> "Exception", msg |-> <<>>]

\* What a test method leaves: core.state's two flags, what it raised, whether
\* its ok-skip preconditions passed, how its voms.proxy_direct() went
\* ("none", "raised", "completed"), whether voms-proxy-init made a proxy.
Ended(got, valid, raised, pre, direct, created) ==
    [got |-> got, valid |-> valid, raised |-> raised, pre |-> pre,
     direct |-> direct, created |-> created]

\* core.state.setdefault('proxy.valid', False)
test_00_setup(got, valid) ==
    Ended(got, IF valid = "unset" THEN "False" ELSE valid, NoRaise, TRUE, "none", FALSE)

\* installed: what skip_ok_unless_installed finds; direct_ok: whether
\* voms.proxy_direct() returns.
test_06_voms_proxy_direct(got, valid, installed, direct_ok) ==
    IF ~installed THEN Ended("False", valid, OkSkipped, FALSE, "none", FALSE)
    ELSE IF ~direct_ok THEN Ended("False", valid, Failed, TRUE, "raised", FALSE)
    ELSE Ended("True", valid, NoRaise, TRUE, "completed", FALSE)

\* self.skip_bad_unless(core.state['voms.got-proxy'], 'no proxy')
SkipUnlessGotProxy(got) ==
    IF got = "unset" THEN NoKey
    ELSE IF got = "False" THEN NoProxy
    ELSE NoRaise

\* can_make: whether voms.skip_ok_unless_can_make_proxy() returns; ok:
\* whether the command and the assertion of proxy_info pass.
test_07_voms_proxy_info(got, valid, can_make, ok) ==
    IF ~can_make THEN Ended(got, valid, OkSkipped, FALSE, "none", FALSE)
    ELSE IF SkipUnlessGotProxy(got) # NoRaise
    THEN Ended(got, valid, SkipUnlessGotProxy(got), TRUE, "none", FALSE)
    ELSE Ended(got, valid, IF ok THEN NoRaise ELSE Failed, TRUE, "none", FALSE)

\* ok: whether the two openssl commands, the two searches and the comparison
\* of the algorithms pass.
test_08_voms_proxy_check(got, valid, can_make, ok) ==
    IF ~can_make THEN Ended(got, valid, OkSkipped, FALSE, "none", FALSE)
    ELSE IF SkipUnlessGotProxy(got) # NoRaise
    THEN Ended(got, valid, SkipUnlessGotProxy(got), TRUE, "none", FALSE)
    ELSE IF ~ok THEN Ended(got, valid, Failed, TRUE, "none", FALSE)
    ELSE Ended(got, "True", NoRaise, TRUE, "none", FALSE)

\* installed: voms-clients is installed; user: 'user.verified' is true and the
\* cert and key files exist; init_ok, info_ok: whether "voms-proxy-init -rfc"
\* and "voms-proxy-info" succeed.
test_09_basic_grid_proxy(got, valid, installed, user, init_ok, info_ok) ==
    IF ~installed THEN Ended(got, valid, OkSkipped, FALSE, "none", FALSE)
    ELSE IF valid = "unset" THEN Ended(got, valid, NoKey, FALSE, "none", FALSE)
    ELSE IF valid = "True" \/ ~user
    THEN Ended(got, valid, OkSkipped, FALSE, "none", FALSE)
    ELSE IF ~init_ok THEN Ended(got, valid, Failed, TRUE, "none", FALSE)
    ELSE IF ~info_ok THEN Ended(got, valid, Failed, TRUE, "none", TRUE)
    ELSE Ended("False", "True", NoRaise, TRUE, "none", TRUE)

\* OSGTestCase.run of a test whose setUp and tearDown are the inherited ones
\* (they raise nothing) and whose method raises e: the calls made on the
\* result.
RunOfMethod(r, made, test, e) ==
    LET afterSetUp == testPartExecutor(NewOutcome, test, NoRaise)
        afterMethod == testPartExecutor(afterSetUp, test, e)
        afterTearDown == testPartExecutor(afterMethod, test, NoRaise)
    IN  Feed([r |-> startTest(r, test), calls |-> made, raised |-> FALSE],
             FeedCalls(afterTearDown, test, FALSE, isOSGTestResult))

\* The suite runs the next test of TestVOMS, whose method ends as m: the
\* result is fed, and an exception that leaves run ends the suite.
RunVomsTest(m) ==
    LET fed == RunOfMethod(result, calls, voms.next, m.raised)
    IN  /\ result' = fed.r
        /\ calls' = fed.calls
        /\ voms' = [got_proxy |-> m.got, proxy_valid |-> m.valid,
                    next |-> voms.next + 1, aborted |-> fed.raised,
                    log |-> Append(voms.log,
                                   [test |-> VomsTests[voms.next],
                                    got_before |-> voms.got_proxy,
                                    valid_before |-> voms.proxy_valid,
                                    left |-> m, run_raised |-> fed.raised])]
        /\ UNCHANGED <<isOSGTestResult, suitePc, idx, started, pc, outcome,
                       expecting_failure, parts, runStatus, helper, report,
                       service, poll, tpc, crl>>

\* The test of that name is the next one to run.
IsNext(name) ==
    /\ ~voms.aborted
    /\ voms.next <= Len(VomsTests)
    /\ VomsTests[voms.next] = name

Test00Setup ==
    /\ IsNext("test_00_setup")
    /\ RunVomsTest(test_00_setup(voms.got_proxy, voms.proxy_valid))

Test06VomsProxyDirect ==
    /\ IsNext("test_06_voms_proxy_direct")
    /\ \E installed \in BOOLEAN, direct_ok \in BOOLEAN :
          RunVomsTest(test_06_voms_proxy_direct(voms.got_proxy, voms.proxy_valid,
                                                installed, direct_ok))

Test07VomsProxyInfo ==
    /\ IsNext("test_07_voms_proxy_info")
    /\ \E can_make \in BOOLEAN, ok \in BOOLEAN :
          RunVomsTest(test_07_voms_proxy_info(voms.got_proxy, voms.proxy_valid,
                                              can_make, ok))

Test08VomsProxyCheck ==
    /\ IsNext("test_08_voms_proxy_check")
    /\ \E can_make \in BOOLEAN, ok \in BOOLEAN :
          RunVomsTest(test_08_voms_proxy_check(voms.got_proxy, voms.proxy_valid,
                                               can_make, ok))

Test09BasicGridProxy ==
    /\ IsNext("test_09_basic_grid_proxy")
    /\ \E installed \in BOOLEAN, user \in BOOLEAN, init_ok \in BOOLEAN,
          info_ok \in BOOLEAN :
          RunVomsTest(test_09_basic_grid_proxy(voms.got_proxy, voms.proxy_valid,
                                               installed, user, init_ok, info_ok))

\* TestVOMS is about to run against a fresh OSGTestResult; 'proxy.valid' is
\* as the modules before it left it.
InitVoms ==
    /\ \E ff \in BOOLEAN : result = NewResult(ff)
    /\ isOSGTestResult = TRUE
    /\ calls = <<>>
    /\ suitePc = "loop"
    /\ idx = 1
    /\ started = <<>>
    /\ pc = "idle"
    /\ outcome = NewOutcome
    /\ expecting_failure = FALSE
    /\ parts = <<>>
    /\ runStatus = "none"
    /\ helper = NoHelper
    /\ report = NoReport
    /\ service = NoService
    /\ poll = NoPoll
    /\ tpc = NoTpc
    /\ crl = NoCrl
    /\ \E valid \in {"unset", "False", "True"} :
          voms = [NoVoms EXCEPT !.proxy_valid = valid]

NextVoms ==
    \/ Test00Setup
    \/ Test06VomsProxyDirect
    \/ Test07VomsProxyInfo
    \/ Test08VomsProxyCheck
    \/ Test09BasicGridProxy

SpecVoms == InitVoms /\ [][NextVoms]_vars

\* ----------------------------------------------------------------- skip helpers

\* Python values given as the expression of a conditional skip, by their repr.
Exprs == {"True", "False", "0", "1", "''", "'x'", "None", "[]"}

\* "if expr:"
Truthy(expr) == expr \notin {"False", "0", "''", "None", "[]"}

PyBool(b) == IF b THEN "True" ELSE "False"

Exc(type, message) == [type |-> type, msg |-> message]

\* Each helper is the exception it raises, NoRaise when it returns.
skip_ok(message) == Exc("OkSkipException", message)

skip_ok_if(expr, message) ==
    IF Truthy(expr) THEN Exc("OkSkipException", message) ELSE NoRaise

skip_ok_unless(expr, message) ==
    IF ~Truthy(expr) THEN Exc("OkSkipException", message) ELSE NoRaise

skip_bad(message) == Exc("BadSkipException", message)

skip_bad_if(expr, message) ==
    IF Truthy(expr) THEN Exc("BadSkipException", message) ELSE NoRaise

\* skip_bad_unless with the condition of skip_bad_if.
skip_bad_unless_inverted(expr, message) ==
    IF Truthy(expr) THEN [type |-> "BadSkipException", msg |-> message] ELSE NoRaise

skip_bad_unless(expr, message) ==
    IF ~Truthy(expr) THEN Exc("BadSkipException", message) ELSE NoRaise

\* "%s is not running" % svc
NotRunningMsg(svc) == <<svc, " is not running">>

\* The for loop of skip_bad_unless_running from its i-th service on; status[i]
\* is what the poll of the i-th service returns.
RECURSIVE UnlessRunningLoop(_, _, _, _)
UnlessRunningLoop(services, status, i, polled) ==
    IF i > Len(services) THEN [raised |-> NoRaise, polled |-> polled]
    ELSE LET svc == services[i]
             running == is_running(<<status[i]>>)
             now == IF running.polled > 0 THEN Append(polled, svc) ELSE polled
             e == skip_bad_unless(PyBool(running.ret), NotRunningMsg(svc))
         IN  IF e # NoRaise THEN [raised |-> e, polled |-> now]
             ELSE UnlessRunningLoop(services, status, i + 1, now)

skip_bad_unless_running(services, status) == UnlessRunningLoop(services, status, 1, <<>>)

Services == {"s1", "s2"}

ServiceLists == UNION {[1..n -> Services] : n \in 0..MaxServices}

\* The variables the helper specification leaves alone.
nonHelperVars ==
    <<result, isOSGTestResult, calls, suitePc, idx, started, pc, outcome,
      expecting_failure, parts, runStatus, extVars>>

HelperCall(fn, expr, message, e) ==
    [fn |-> fn, expr |-> expr, msg |-> message, services |-> <<>>, status |-> <<>>,
     raised |-> e, polled |-> <<>>]

SkipOk ==
    /\ \E m \in Msgs : helper' = HelperCall("skip_ok", "None", m, skip_ok(m))
    /\ UNCHANGED nonHelperVars

SkipOkIf ==
    /\ \E x \in Exprs, m \in Msgs :
          helper' = HelperCall("skip_ok_if", x, m, skip_ok_if(x, m))
    /\ UNCHANGED nonHelperVars

SkipOkUnless ==
    /\ \E x \in Exprs, m \in Msgs :
          helper' = HelperCall("skip_ok_unless", x, m, skip_ok_unless(x, m))
    /\ UNCHANGED nonHelperVars

SkipBad ==
    /\ \E m \in Msgs : helper' = HelperCall("skip_bad", "None", m, skip_bad(m))
    /\ UNCHANGED nonHelperVars

SkipBadIf ==
    /\ \E x \in Exprs, m \in Msgs :
          helper' = HelperCall("skip_bad_if", x, m, skip_bad_if(x, m))
    /\ UNCHANGED nonHelperVars

SkipBadUnless ==
    /\ \E x \in Exprs, m \in Msgs :
          helper' = HelperCall("skip_bad_unless", x, m, skip_bad_unless(x, m))
    /\ UNCHANGED nonHelperVars

SkipBadUnlessRunning ==
    /\ \E services \in ServiceLists :
          \E status \in [1..Len(services) -> StatusCodes] :
              LET end == skip_bad_unless_running(services, status)
              IN  helper' = [fn |-> "skip_bad_unless_running", expr |-> "None",
                             msg |-> NoneMsg, services |-> services,
                             status |-> status, raised |-> end.raised,
                             polled |-> end.polled]
    /\ UNCHANGED nonHelperVars

\* A test case on which no helper has been called yet.
InitSkip ==
    /\ result = NewResult(FALSE)
    /\ isOSGTestResult = TRUE
    /\ calls = <<>>
    /\ suitePc = "returned"
    /\ idx = 1
    /\ started = <<>>
    /\ pc = "idle"
    /\ outcome = NewOutcome
    /\ expecting_failure = FALSE
    /\ parts = <<>>
    /\ runStatus = "none"
    /\ helper = NoHelper
    /\ report = NoReport
    /\ service = NoService
    /\ poll = NoPoll
    /\ tpc = NoTpc
    /\ crl = NoCrl
    /\ voms = NoVoms

NextSkip ==
    \/ SkipOk
    \/ SkipOkIf
    \/ SkipOkUnless
    \/ SkipBad
    \/ SkipBadIf
    \/ SkipBadUnless
    \/ SkipBadUnlessRunning

SpecSkip == InitSkip /\ [][NextSkip]_vars

\* ------------------------------------------------ what the properties speak of

\* The test of the current (or last) run.
LastTest == started[Len(started)][1]

\* OSGTestCase.run has ended, by returning or by raising.
RunEnded == runStatus \in {"returned", "raised"}

HasEntry(list, test) == \E i \in 1..Len(list) : list[i][1] = test

EntriesOf(list, test) == SelectSeq(list, LAMBDA entry : entry[1] = test)

Called(method, test) == \E i \in 1..Len(calls) : calls[i] = <<method, test>>

NumCalls(method) == Cardinality({i \in 1..Len(calls) : calls[i][1] = method})

\* The terminal outcome categories in which the test is recorded.
Categories(test) ==
    {c \in {"success"} : Called("addSuccess", test)}
    \cup {c \in {"failures"} : HasEntry(result.failures, test)}
    \cup {c \in {"errors"} : HasEntry(result.errors, test)}
    \cup {c \in {"okSkips"} : HasEntry(result.okSkips, test)}
    \cup {c \in {"badSkips"} : HasEntry(result.badSkips, test)}
    \cup {c \in {"excludes"} : HasEntry(result.excludes, test)}
    \cup {c \in {"timeouts"} : HasEntry(result.timeouts, test)}
    \cup {c \in {"skipped"} : HasEntry(result.skipped, test)}
    \cup {c \in {"expectedFailures"} : HasEntry(result.expectedFailures, test)}
    \cup {c \in {"unexpectedSuccesses"} : HasEntry(result.unexpectedSuccesses, test)}

PartNames == [i \in 1..Len(parts) |-> parts[i][1]]

Ran(part) == \E i \in 1..Len(parts) : parts[i][1] = part

\* The part raised an exception of the type (with the message).
PartRaised(part, type) ==
    \E i \in 1..Len(parts) : parts[i][1] = part /\ parts[i][2] = type

PartRaisedMsg(part, type, m) ==
    \E i \in 1..Len(parts) : parts[i] = <<part, type, m>>

NumRaisingParts == Cardinality({i \in 1..Len(parts) : parts[i][2] # "NoRaise"})

Interrupted == \E i \in 1..Len(parts) : parts[i][2] = "KeyboardInterrupt"

\* The result's list of a taxonomy exception.
ListOf(r, type) ==
    CASE type = "OkSkipException" -> r.okSkips
      [] type = "BadSkipException" -> r.badSkips
      [] type = "ExcludedException" -> r.excludes
      [] type = "TimeoutException" -> r.timeouts

\* ------------------------------------------------------------------- claims

\* C1 as stated: after OSGTestCase.run returns for an OSGTestResult, the test
\* is recorded in exactly one terminal outcome category, whatever the parts
\* raised.
C1_ExactlyOneCategory ==
    (runStatus = "returned" /\ isOSGTestResult)
        => Cardinality(Categories(LastTest)) = 1

\* C1 as amended: after OSGTestCase.run returns for an OSGTestResult, the test
\* is recorded in at least one terminal outcome category, and in exactly one
\* when at most one of setUp, the test method and tearDown raised.
C1_AtLeastOneCategory ==
    (runStatus = "returned" /\ isOSGTestResult)
        => /\ Cardinality(Categories(LastTest)) >= 1
           /\ NumRaisingParts <= 1 => Cardinality(Categories(LastTest)) = 1

\* A run that returned with the test method failed and nothing else raised:
\* the test is recorded as a failure only.
C1_Witness ==
    /\ runStatus = "returned" /\ isOSGTestResult
    /\ PartRaised("testMethod", "AssertionError")
    /\ NumRaisingParts = 1
    /\ Categories(LastTest) = {"failures"}

\* The only part of the run that raised is this one, with this exception.
OnlyRaise(part, type, m) ==
    /\ PartRaisedMsg(part, type, m)
    /\ NumRaisingParts = 1

\* C2: when setUp or the test method raises OkSkipException,
\* BadSkipException, ExcludedException or TimeoutException with message m and
\* the result is an OSGTestResult, run returns normally and the matching list
\* gains exactly one entry (test, m), the other three lists gaining none; for
\* every message, the empty one included.  (Stated for the runs in which
\* nothing else raises.)
C2_SkipRecordedOnce ==
    \A part \in {"setUp", "testMethod"}, type \in SkipExcTypes, m \in Strs :
        (isOSGTestResult /\ RunEnded /\ OnlyRaise(part, type, m))
            => /\ runStatus = "returned"
               /\ EntriesOf(ListOf(result, type), LastTest) = <<<<LastTest, m>>>>
               /\ \A other \in SkipExcTypes \ {type} :
                      ~HasEntry(ListOf(result, other), LastTest)

\* C3: in a run of a test that no decorator skips, the parts execute in the
\* order setUp, test method, tearDown, doCleanups; the test method starts only
\* after setUp completed without recording a non-success outcome; tearDown
\* runs if and only if the test method was started; doCleanups runs exactly
\* once after them, also when setUp failed.  (Stated for the runs that no
\* KeyboardInterrupt cuts short.)
C3_PartOrder ==
    (runStatus \in {"running", "returned", "raised"} /\ Len(parts) > 0 /\ ~Interrupted)
        => /\ \E n \in 0..4 :
                  \/ PartNames = SubSeq(<<"setUp", "testMethod", "tearDown", "doCleanups">>, 1, n)
                  \/ PartNames = SubSeq(<<"setUp", "doCleanups">>, 1, n)
           /\ Ran("testMethod") => parts[1][2] \in {"NoRaise", "_ShouldStop"}
           /\ Ran("doCleanups") => (Ran("tearDown") <=> Ran("testMethod"))
           /\ RunEnded => Ran("doCleanups")

\* C5: a test that raises ExcludedException from setUp or from the test method
\* is recorded in the result's excludes list and addSuccess is not called for
\* it.  (Stated for the runs that no KeyboardInterrupt cuts short.)
C5_ExcludedOnly ==
    \A part \in {"setUp", "testMethod"} :
        (isOSGTestResult /\ RunEnded /\ ~Interrupted /\ PartRaised(part, "ExcludedException"))
            => /\ HasEntry(result.excludes, LastTest)
               /\ ~Called("addSuccess", LastTest)

\* C6: with a result that is not an OSGTestResult, a test raising
\* OkSkipException is counted as a success (addSuccess is called), and a test
\* raising BadSkipException as an error when raised in setUp, as a failure
\* when raised in the test method.  (Stated for the runs in which nothing else
\* raises.)
C6_PlainResult ==
    \A m \in Strs :
        (~isOSGTestResult /\ runStatus = "returned")
            => /\ \A part \in {"setUp", "testMethod"} :
                      OnlyRaise(part, "OkSkipException", m)
                          => Called("addSuccess", LastTest)
               /\ OnlyRaise("setUp", "BadSkipException", m)
                      => HasEntry(result.errors, LastTest)
               /\ OnlyRaise("testMethod", "BadSkipException", m)
                      => HasEntry(result.failures, LastTest)

\* C8: across the tests run against one shared OSGTestResult, each of the
\* lists okSkips, badSkips, excludes, timeouts, failures and errors has as
\* many entries as calls were made to its add* method (each call appends
\* exactly one entry, none is removed).
C8_AppendOnly ==
    isOSGTestResult
        => /\ Len(result.okSkips) = NumCalls("addOkSkip")
           /\ Len(result.badSkips) = NumCalls("addBadSkip")
           /\ Len(result.excludes) = NumCalls("addExclude")
           /\ Len(result.timeouts) = NumCalls("addTimeout")
           /\ Len(result.failures) = NumCalls("addFailure")
           /\ Len(result.errors) = NumCalls("addError")

\* C4: wasSuccessful() is true if and only if failures, errors, badSkips and
\* timeouts are all empty, whatever okSkips, excludes, skipped,
\* expectedFailures and unexpectedSuccesses hold.
C4_WasSuccessful ==
    wasSuccessful(result)
        <=> /\ result.failures = <<>>
            /\ result.errors = <<>>
            /\ result.badSkips = <<>>
            /\ result.timeouts = <<>>

\* One bad skip beside an ok skip, nothing failed: the result is unsuccessful.
C4_Witness ==
    /\ Len(result.badSkips) = 1
    /\ Len(result.okSkips) = 1
    /\ result.failures = <<>> /\ result.errors = <<>> /\ result.timeouts = <<>>
    /\ ~wasSuccessful(result)

\* C7: OSGTestSuite.run starts its tests one after another in list order,
\* each only after the one before it has ended and only when the check of
\* result.shouldStop before it found False; it returns only when the tests are
\* exhausted or shouldStop is true.
C7_SuiteSequential ==
    /\ \A i \in 1..Len(started) : started[i] = <<i, FALSE>>
    /\ pc # "idle" => idx = Len(started)
    /\ (pc = "idle" /\ suitePc = "loop") => idx = Len(started) + 1
    /\ suitePc = "returned"
          => /\ pc = "idle"
             /\ idx > NumTests \/ result.shouldStop

\* The suite returned before its last test because a failure under failfast
\* set shouldStop.
C7_Witness ==
    /\ suitePc = "returned"
    /\ result.shouldStop
    /\ Len(started) = 1
    /\ Len(started) < NumTests

\* C9: wasPerfect() is true if and only if failures, errors, badSkips,
\* timeouts and okSkips are all empty; so it implies wasSuccessful(), and a
\* result holding an ok skip is never perfect.
C9_WasPerfect ==
    /\ wasPerfect(result)
          <=> /\ result.failures = <<>>
              /\ result.errors = <<>>
              /\ result.badSkips = <<>>
              /\ result.timeouts = <<>>
              /\ result.okSkips = <<>>
    /\ wasPerfect(result) => wasSuccessful(result)
    /\ result.okSkips # <<>> => ~wasPerfect(result)

\* A successful result that holds an ok skip: not perfect.
C9_Witness ==
    /\ wasSuccessful(result)
    /\ Len(result.okSkips) = 1
    /\ ~wasPerfect(result)

\* The values that are true, and the index of the first service not running.
TrueExprs == {"True", "1", "'x'"}

FirstNotRunning(status) ==
    IF \E i \in 1..Len(status) : status[i] # STATUS_RUNNING
    THEN CHOOSE i \in 1..Len(status) :
            /\ status[i] # STATUS_RUNNING
            /\ \A j \in 1..(i - 1) : status[j] = STATUS_RUNNING
    ELSE 0

\* C10: skip_ok_if / skip_bad_if raise exactly when the expression is true,
\* skip_ok_unless / skip_bad_unless exactly when it is false; the skip_ok
\* family raises OkSkipException, the skip_bad family BadSkipException, with
\* the message given.  skip_bad_unless_running polls the services in argument
\* order, raises BadSkipException at the first that is not running without
\* polling a later one, and returns only if all are running.
C10_SkipHelpers ==
    /\ helper.fn \in {"skip_ok_if", "skip_bad_if"}
          => (helper.raised # NoRaise <=> helper.expr \in TrueExprs)
    /\ helper.fn \in {"skip_ok_unless", "skip_bad_unless"}
          => (helper.raised # NoRaise <=> helper.expr \notin TrueExprs)
    /\ (helper.fn \in {"skip_ok", "skip_ok_if", "skip_ok_unless"} /\ helper.raised # NoRaise)
          => helper.raised = [type |-> "OkSkipException", msg |-> helper.msg]
    /\ (helper.fn \in {"skip_bad", "skip_bad_if", "skip_bad_unless"} /\ helper.raised # NoRaise)
          => helper.raised = [type |-> "BadSkipException", msg |-> helper.msg]
    /\ helper.fn = "skip_bad_unless_running"
          => LET k == FirstNotRunning(helper.status)
             IN  IF k = 0
                 THEN helper.raised = NoRaise /\ helper.polled = helper.services
                 ELSE /\ helper.raised.type = "BadSkipException"
                      /\ helper.polled = SubSeq(helper.services, 1, k)

\* Two services, the first stopped: BadSkipException after one poll.
C10_Witness ==
    /\ helper.fn = "skip_bad_unless_running"
    /\ Len(helper.services) = 2
    /\ helper.status[1] = STATUS_STOPPED
    /\ helper.raised.type = "BadSkipException"
    /\ helper.polled = <<helper.services[1]>>

\* The entries the lists of raised exceptions hold for the test.
NumEntries(r, test) ==
    Len(EntriesOf(r.failures, test)) + Len(EntriesOf(r.errors, test))
    + Len(EntriesOf(r.okSkips, test)) + Len(EntriesOf(r.badSkips, test))
    + Len(EntriesOf(r.excludes, test)) + Len(EntriesOf(r.timeouts, test))

\* The i-th part of the run ended by recording an ok skip (SkipTest is
\* recorded as one), a bad skip, a timeout or an unexpected exception.
RecordedNonSuccess(i) ==
    \/ parts[i][2] \in {"OkSkipException", "SkipTest", "BadSkipException",
                        "TimeoutException"}
    \/ /\ parts[i][2] \in {"AssertionError", "Exception"}
       /\ ~(parts[i][1] = "testMethod" /\ expecting_failure)

\* C15: if setUp raises ExcludedException, the test method and tearDown of the
\* excluded test are not executed.
C15_ExcludedSetUpEndsTest ==
    PartRaised("setUp", "ExcludedException")
        => ~Ran("testMethod") /\ ~Ran("tearDown")

\* C16: within one run, once a part ended by recording an ok skip, a bad
\* skip, a timeout or an unexpected exception, outcome.success is False at the
\* end of every later part, and none of addSuccess, addExpectedFailure and
\* addUnexpectedSuccess is called for the test.
C16_SuccessMonotone ==
    (\E i \in 1..Len(parts) : RecordedNonSuccess(i))
        => /\ pc # "idle" => ~outcome.success
           /\ ~Called("addSuccess", LastTest)
           /\ ~Called("addExpectedFailure", LastTest)
           /\ ~Called("addUnexpectedSuccess", LastTest)

\* The test method was skipped ok, tearDown then passed, and the run returned
\* without a call of addSuccess.
C16_Witness ==
    /\ runStatus = "returned"
    /\ Len(parts) = 4
    /\ parts[2][2] = "OkSkipException"
    /\ parts[3] = <<"tearDown", "NoRaise", <<>>>>
    /\ ~Called("addSuccess", LastTest)

\* C17: for one run against an OSGTestResult with no expected-failure
\* marking, as many entries are added to failures, errors, okSkips, badSkips,
\* excludes and timeouts as executed parts raised; a test whose method raises
\* OkSkipException and whose tearDown raises BadSkipException is recorded in
\* both okSkips and badSkips.  (Stated for the runs in which no part raises
\* _ShouldStop or KeyboardInterrupt.)
C17_EntriesMatchRaises ==
    (/\ isOSGTestResult /\ RunEnded /\ ~expecting_failure
     /\ \A i \in 1..Len(parts) : parts[i][2] \notin {"_ShouldStop", "KeyboardInterrupt"})
        => /\ NumEntries(result, LastTest) = NumRaisingParts
           /\ (PartRaised("testMethod", "OkSkipException")
                  /\ PartRaised("tearDown", "BadSkipException"))
                 => /\ HasEntry(result.okSkips, LastTest)
                    /\ HasEntry(result.badSkips, LastTest)

\* The sections of the text report in their order, and the list of each.
FlavourOrder == <<"ERROR", "FAIL", "TIMEOUT", "BAD SKIPS", "OK SKIPS", "EXCLUDED">>

Rank(flavour) == CHOOSE k \in 1..Len(FlavourOrder) : FlavourOrder[k] = flavour

ListOfFlavour(r, flavour) ==
    CASE flavour = "ERROR" -> r.errors
      [] flavour = "FAIL" -> r.failures
      [] flavour = "TIMEOUT" -> r.timeouts
      [] flavour = "BAD SKIPS" -> r.badSkips
      [] flavour = "OK SKIPS" -> r.okSkips
      [] flavour = "EXCLUDED" -> r.excludes

\* The positions of the headers of a kind and flavour in the printed lines.
HeadersAt(kind, flavour) ==
    SelectSeq([i \in 1..Len(report.printed) |-> i],
              LAMBDA i : /\ report.printed[i].kind = kind
                         /\ report.printed[i].flavour = flavour)

\* The (test, text) pairs printed under the headers of an error flavour.
PrintedErrors(flavour) ==
    LET at == HeadersAt("error header", flavour)
    IN  [k \in 1..Len(at) |->
            <<report.printed[at[k]].test, report.printed[at[k] + 2].text>>]

\* C11: the runner writes "OK" if and only if result.wasSuccessful(), and the
\* summary shows the count of okSkips, of badSkips and of timeouts whenever
\* that count is not zero, in successful and in unsuccessful runs.
C11_SummaryShowsSkips ==
    report.written
        => /\ report.ok <=> wasSuccessful(result)
           /\ \A name \in {"okSkips", "badSkips", "timeouts"} :
                  Len(result[name]) # 0
                      => \E i \in 1..Len(report.infos) :
                            report.infos[i] = <<name, Len(result[name])>>

Issued == SelectSeq(service.log, LAMBDA entry : Len(entry.cmds) # 0)

\* C12: with the started-service flag unset at first, as long as every call of
\* start and stop is made without force and every systemctl command
\* succeeds, the commands issued alternate start, stop, start, ...; a stop
\* command is issued only while the flag is True; the flag is False after
\* every stop that issued its command, and not True after any stop.
C12_StopsOnlyWhatItStarted ==
    (\A i \in 1..Len(service.log) :
        /\ ~service.log[i].force
        /\ Len(service.log[i].cmds) # 0 => service.log[i].ok)
        => /\ \A k \in 1..Len(Issued) :
                  Issued[k].cmds =
                      <<Command(IF k % 2 = 1 THEN "start" ELSE "stop")>>
           /\ \A i \in 1..Len(service.log) :
                  LET entry == service.log[i]
                  IN  entry.op = "stop"
                          => /\ Len(entry.cmds) # 0 => entry.before = "True"
                             /\ Len(entry.cmds) # 0 => entry.after = "False"
                             /\ entry.after # "True"

\* Start, stop, start again, each issuing its command, then a start that is
\* passed over.
C12_Witness ==
    /\ Len(service.log) = 4
    /\ \A i \in 1..4 : ~service.log[i].force /\ service.log[i].raised = "NoRaise"
    /\ service.last.fn = "start"
    /\ Len(Issued) = 3
    /\ service.log[2].op = "stop" /\ service.log[2].after = "False"
    /\ service.log[4].op = "start" /\ Len(service.log[4].cmds) = 0

\* C13: start without force while the flag is true issues no command and
\* leaves the flag as it is; every other start issues exactly one "systemctl
\* start <name>", sets the flag to True when the command succeeded, and leaves
\* the flag as it was when the check of the command raised.
C13_Start ==
    \A i \in 1..Len(service.log) :
        LET entry == service.log[i]
        IN  entry.op = "start"
                => IF ~entry.force /\ entry.before = "True"
                   THEN /\ entry.cmds = <<>>
                        /\ entry.after = entry.before
                        /\ entry.raised = "NoRaise"
                   ELSE /\ entry.cmds = <<Command("start")>>
                        /\ entry.ok => entry.after = "True" /\ entry.raised = "NoRaise"
                        /\ ~entry.ok => entry.after = entry.before /\ entry.raised # "NoRaise"

\* A start whose command failed with the flag unset, a start that succeeded,
\* and a start passed over because of the flag.
C13_Witness ==
    /\ Len(service.log) = 3
    /\ \A i \in 1..3 : service.log[i].op = "start" /\ ~service.log[i].force
    /\ ~service.log[1].ok /\ service.log[1].after = "unset"
    /\ service.log[2].ok /\ service.log[2].after = "True"
    /\ service.log[3].cmds = <<>>

\* C14: check_status polls at most timeout times (not at all when timeout <=
\* 0) and ends; it stops at the first poll that returns the expected status;
\* it returns True if and only if one of the polls it made returned the
\* expected status; with timeout <= 0 it returns False.
C14_CheckStatus ==
    poll.called
        => LET hits == {i \in 1..poll.timeout : poll.polls[i] = poll.expected_status}
               most == IF poll.timeout > 0 THEN poll.timeout ELSE 0
           IN  /\ poll.polled <= most
               /\ poll.polled = (IF hits = {} THEN most
                                 ELSE CHOOSE i \in hits : \A j \in hits : i <= j)
               /\ poll.ret <=> \E i \in 1..poll.polled :
                                   poll.polls[i] = poll.expected_status
               /\ poll.timeout <= 0 => poll.polled = 0 /\ ~poll.ret

\* The expected status comes at the second of three polls allowed: two polls,
\* True.
C14_Witness ==
    /\ poll.called
    /\ poll.timeout = 3
    /\ poll.polls[1] # poll.expected_status
    /\ poll.polls[2] = poll.expected_status
    /\ poll.polled = 2
    /\ poll.ret

\* C19: a service that start_xrootd found running, and that the harness
\* therefore neither started nor flagged, is left running by stop_xrootd: no
\* "systemctl stop" is issued for it and stop_xrootd raises nothing.
C19_ForeignServiceLeftAlone ==
    (service.last.fn = "stop_xrootd" /\ service.last.foreign)
        => /\ service.last.cmds = <<>>
           /\ service.last.raised = "NoRaise"

\* C20: the decorator sets 'xrootd.tpc.had-failures' to True if and only if
\* the wrapped test raises an AssertionError that is not an ok skip, a bad
\* skip or an excluded exception; it re-raises what the test raised and
\* returns what the test returned; the flag is never reset, so once True it
\* stays True.
C20_RecordFailure ==
    /\ \A i \in 1..Len(tpc.log) :
           LET call == tpc.log[i]
               failure == call.fn.e.type \in {"AssertionError", "TimeoutException"}
           IN  /\ call.before # call.after <=> (failure /\ call.before # "True")
               /\ failure => call.after = "True"
               /\ call.raised = call.fn.e
               /\ call.fn.e = NoRaise => call.ret = call.fn.val
               /\ call.before = (IF i = 1 THEN "unset" ELSE tpc.log[i - 1].after)
    /\ \A i, j \in 1..Len(tpc.log) :
           (i < j /\ tpc.log[i].after = "True") => tpc.log[j].after = "True"
    /\ Len(tpc.log) > 0 => tpc.flag = tpc.log[Len(tpc.log)].after

\* An ok skip leaves the flag unset, a failure sets it, and a test that then
\* returns leaves it True.
C20_Witness ==
    /\ Len(tpc.log) = 3
    /\ tpc.log[1].fn.e.type = "OkSkipException" /\ tpc.log[1].after = "unset"
    /\ tpc.log[2].fn.e.type = "AssertionError" /\ tpc.log[2].after = "True"
    /\ tpc.log[3].fn.e = NoRaise /\ tpc.log[3].ret = "value"
    /\ tpc.flag = "True"

\* The lines of a text as the places they take: <<i, j>> for the characters
\* i..j between two newlines (or the ends of the text), i > j for an empty line.
LinesAt(text) ==
    {<<i, j>> \in (1..(Len(text) + 1)) \X (0..Len(text)) :
        /\ i <= j + 1
        /\ \A k \in i..j : text[k] # "\n"
        /\ i = 1 \/ text[i - 1] = "\n"
        /\ j = Len(text) \/ text[j + 1] = "\n"}

\* The line matches a pattern of the whitelist: it starts with VERBOSE(0) or
\* holds one of the phrases.
Whitelisted(text, at) ==
    \/ at[1] <= at[2] /\ text[at[1]] = "V"
    \/ \E k \in at[1]..at[2] : text[k] = "W"

\* The lines that are not empty and match no pattern.
Unacceptable(text) == {at \in LinesAt(text) : at[1] <= at[2] /\ ~Whitelisted(text, at)}

\* C21: output_is_acceptable returns True if and only if every non-blank
\* (non-empty) line of the output matches a whitelisted pattern, so for the
\* empty output too; it logs nothing then, and otherwise exactly one line, the
\* first unacceptable one.  In the fetch-crl tests the status check passes on
\* exit status 1 only when stdout + "\n" + stderr is acceptable, and fails on
\* every exit status other than 0 and 1.
C21_OutputIsAcceptable ==
    /\ crl.called
          => LET bad == Unacceptable(crl.output)
             IN  /\ crl.ret <=> bad = {}
                 /\ crl.ret => crl.log = <<>>
                 /\ ~crl.ret
                       => LET first == CHOOSE at \in bad :
                                           \A other \in bad : at[1] <= other[1]
                          IN  crl.log = <<Strip(SubSeq(crl.output, first[1], first[2]))>>
    /\ crl.check # "none"
          => /\ crl.status = 1
                   => /\ crl.called
                      /\ crl.check = "pass" <=> crl.ret
             /\ crl.status \notin {0, 1} => crl.check = "fail"
             /\ crl.check = "fail" => crl.raised = "AssertionError"

\* fetch-crl exits with 1; its stdout is an unacceptable line and so is its
\* stderr: the first one is logged and the status check fails.
C21_Witness ==
    /\ crl.fn = "test_01_fetch_crl"
    /\ crl.status = 1
    /\ crl.output = <<"x", " ", "\n", " ", "x">>
    /\ crl.log = <<<<"x">>>>
    /\ crl.check = "fail"

\* The index of a test of TestVOMS.
VomsTestIndex(name) == CHOOSE t \in 1..Len(VomsTests) : VomsTests[t] = name

\* C22: 'voms.got-proxy' is True only if voms.proxy_direct() of test_06
\* completed and test_09 has not created a basic proxy after it; whenever the
\* flag is False, test_07 and test_08 end as bad skips 'no proxy' once their
\* ok-skip preconditions pass (the method raises the bad skip and the test is
\* in the result's badSkips); 'proxy.valid', once True, is not set back.
C22_VomsProxyFlags ==
    /\ voms.got_proxy = "True"
          => \E i \in 1..Len(voms.log) :
                /\ voms.log[i].test = "test_06_voms_proxy_direct"
                /\ voms.log[i].left.direct = "completed"
                /\ \A j \in (i + 1)..Len(voms.log) : ~voms.log[j].left.created
    /\ \A i \in 1..Len(voms.log) :
          LET ran == voms.log[i]
          IN  /\ (/\ ran.test \in {"test_07_voms_proxy_info", "test_08_voms_proxy_check"}
                  /\ ran.got_before = "False"
                  /\ ran.left.pre)
                    => /\ ran.left.raised = NoProxy
                       /\ EntriesOf(result.badSkips, VomsTestIndex(ran.test))
                              = <<<<VomsTestIndex(ran.test), NoProxyMsg>>>>
              /\ ran.valid_before = "True" => ran.left.valid = "True"
    /\ \A i \in 1..Len(voms.log) :
          voms.log[i].left.valid = "True" => voms.proxy_valid = "True"

====
